---- MODULE Spec2Model ----
(***************************************************************************)
(* Model of crypto_dashboard.py: the nine traffic-light classifiers and    *)
(* the two report generators (generate_report, generate_email_report).     *)
(*                                                                         *)
(* Numbers.  A Python float is modelled as a fixed-point integer counting  *)
(* ten-thousandths: the float 5.0 is 5 * Unit, -0.01 is -(Unit \div 100),   *)
(* -5.0001 is -5 * Unit - 1.  Only finite numbers are modelled (no NaN,    *)
(* no infinities).                                                         *)
(*                                                                         *)
(* Values.  A Python value is a record [t, n, s]: t is the Python type     *)
(* ("NoneType", "int", "float", "str"), n the number, s the string.        *)
(* A dict is a function whose DOMAIN is the set of keys it holds, so a key *)
(* that is missing and a key that holds None are different states.         *)
(***************************************************************************)
EXTENDS Integers, Sequences, FiniteSets, TLC

VARIABLES
    kind,     \* which classifier is applied (classifier specification)
    value,    \* the argument handed to the classifier
    signal,   \* what the classifier returned, NotRun before the call
    data,     \* the snapshot dict handed to the report generators
    report,   \* result of generate_report(data), Pending before the call
    email,    \* result of generate_email_report(data), Pending before
    now,      \* the system clock (datetime.utcnow()), in minutes
    bullish_count,  \* the aggregator's count of bullish-favourable tiers
    bearish_count,  \* the aggregator's count of bearish-favourable tiers
    verdict,        \* what the aggregator returned, NotRun before the call
    pc,             \* where main is
    upstream,       \* what each upstream service answers in this run
    fetched,        \* the groups main has stored in data, in order
    sent_telegram,  \* what send_telegram returned, NotRun before the call
    sent_email,     \* what send_email returned, NotRun before the call
    latest_json     \* the content of data/latest.json

aggVars == <<bullish_count, bearish_count, verdict>>
mainVars == <<pc, upstream, fetched, sent_telegram, sent_email, latest_json>>

vars == <<kind, value, signal, data, report, email, now, aggVars, mainVars>>

\* Fixed-point resolution: one Unit is the float 1.0.
Unit == 10000

\* Bounds of the model.
MaxDelta == 2
MaxOverride == 1
MaxClock == 1

-----------------------------------------------------------------------------
(* Python values *)

None == [t |-> "NoneType", n |-> 0, s |-> ""]
PyFloat(x) == [t |-> "float", n |-> x, s |-> ""]
PyInt(i) == [t |-> "int", n |-> i * Unit, s |-> ""]
Str(x) == [t |-> "str", n |-> 0, s |-> x]

IsNumber(v) == v.t \in {"int", "float"}

NotRun == "not run"

\* A report that has not been generated yet.
Pending == [exc |-> NotRun, markup |-> "", time_str |-> 0,
            lines |-> <<>>, style |-> <<>>]

-----------------------------------------------------------------------------
(* TRAFFIC LIGHT FUNCTIONS.  The four markers are the emoji string        *)
(* literals the classifiers return.                                        *)

GREEN == "GREEN"
YELLOW == "YELLOW"
RED == "RED"
UNKNOWN == "UNKNOWN"

get_ma_signal_noguard(distance) ==
    IF distance.t = "NoneType" THEN "TypeError"
    ELSE IF distance.n >= 5 * Unit THEN GREEN
    ELSE IF distance.n >= -5 * Unit THEN YELLOW
    ELSE RED

get_ma_signal_strict(distance) ==
    IF distance = None THEN UNKNOWN
    ELSE IF distance.n > 5 * Unit THEN GREEN
    ELSE IF distance.n >= -5 * Unit THEN YELLOW
    ELSE RED

get_ma_signal(distance) ==
    IF distance = None THEN UNKNOWN
    ELSE IF distance.n >= 5 * Unit THEN GREEN
    ELSE IF distance.n >= -5 * Unit THEN YELLOW
    ELSE RED

get_52w_high_signal(change) ==
    IF change = None THEN UNKNOWN
    ELSE IF change.n >= -15 * Unit THEN GREEN
    ELSE IF change.n >= -40 * Unit THEN YELLOW
    ELSE RED

get_52w_low_signal(change) ==
    IF change = None THEN UNKNOWN
    ELSE IF change.n >= 100 * Unit THEN GREEN
    ELSE IF change.n >= 30 * Unit THEN YELLOW
    ELSE RED

get_fear_greed_signal_strict(v) ==
    IF v = None THEN UNKNOWN
    ELSE IF v.n < 25 * Unit THEN GREEN
    ELSE IF v.n <= 74 * Unit THEN YELLOW
    ELSE RED

get_fear_greed_signal(v) ==
    IF v = None THEN UNKNOWN
    ELSE IF v.n <= 25 * Unit THEN GREEN
    ELSE IF v.n <= 74 * Unit THEN YELLOW
    ELSE RED

get_kimchi_signal(premium) ==
    IF premium = None THEN UNKNOWN
    ELSE IF -1 * Unit <= premium.n /\ premium.n <= 2 * Unit THEN GREEN
    ELSE IF -3 * Unit <= premium.n /\ premium.n <= 5 * Unit THEN YELLOW
    ELSE RED

get_funding_signal_yellow_first(rate) ==
    IF rate = None THEN UNKNOWN
    ELSE IF -((3 * Unit) \div 100) <= rate.n /\ rate.n <= (8 * Unit) \div 100
         THEN YELLOW
    ELSE IF -(Unit \div 100) <= rate.n /\ rate.n <= (3 * Unit) \div 100
         THEN GREEN
    ELSE RED

get_funding_signal(rate) ==
    IF rate = None THEN UNKNOWN
    ELSE IF -(Unit \div 100) <= rate.n /\ rate.n <= (3 * Unit) \div 100
         THEN GREEN
    ELSE IF -((3 * Unit) \div 100) <= rate.n /\ rate.n <= (8 * Unit) \div 100
         THEN YELLOW
    ELSE RED

get_dominance_signal(dom) ==
    IF dom = None THEN UNKNOWN
    ELSE IF 50 * Unit <= dom.n /\ dom.n <= 60 * Unit THEN GREEN
    ELSE IF 45 * Unit <= dom.n /\ dom.n <= 65 * Unit THEN YELLOW
    ELSE RED

get_m2_signal(yoy) ==
    IF yoy = None THEN UNKNOWN
    ELSE IF yoy.n > 5 * Unit THEN GREEN
    ELSE IF yoy.n >= 0 THEN YELLOW
    ELSE RED

get_stablecoin_signal_inclusive(total_b) ==
    IF total_b = None THEN UNKNOWN
    ELSE IF total_b.n >= 200 * Unit THEN GREEN
    ELSE IF total_b.n >= 150 * Unit THEN YELLOW
    ELSE RED

get_stablecoin_signal(total_b) ==
    IF total_b = None THEN UNKNOWN
    ELSE IF total_b.n > 200 * Unit THEN GREEN
    ELSE IF total_b.n >= 150 * Unit THEN YELLOW
    ELSE RED

-----------------------------------------------------------------------------
(* Classifier specification: every classifier applied to every input of a  *)
(* bounded set that surrounds each of its thresholds.                      *)

Kinds == {"ma", "high", "low", "fear_greed", "kimchi", "funding",
          "dominance", "m2", "stablecoin"}

\* The numbers at which a tier of the classifier begins or ends.
Thresholds(k) ==
    CASE k = "ma" -> {5 * Unit, -5 * Unit}
      [] k = "high" -> {-15 * Unit, -40 * Unit}
      [] k = "low" -> {100 * Unit, 30 * Unit}
      [] k = "fear_greed" -> {25 * Unit, 26 * Unit, 74 * Unit, 75 * Unit}
      [] k = "kimchi" -> {-1 * Unit, 2 * Unit, -3 * Unit, 5 * Unit}
      [] k = "funding" -> {-(Unit \div 100), (3 * Unit) \div 100,
                           -((3 * Unit) \div 100), (8 * Unit) \div 100}
      [] k = "dominance" -> {50 * Unit, 60 * Unit, 45 * Unit, 65 * Unit}
      [] k = "m2" -> {5 * Unit, 0}
      [] k = "stablecoin" -> {200 * Unit, 150 * Unit}

\* Every threshold and zero, each with its neighbours MaxDelta ten-thousandths
\* either side and one whole unit either side.
NumericInputs(k) ==
    {t + d : t \in Thresholds(k) \cup {0}, d \in (-MaxDelta)..MaxDelta}
    \cup {t + w : t \in Thresholds(k), w \in {-Unit, Unit}}

\* The sentiment index is an int (line 289): every integer of 0..100.
IndexInputs == {PyInt(i) : i \in 0..100}

ClassifierInputs(k) ==
    {None} \cup {PyFloat(x) : x \in NumericInputs(k)}
    \cup (IF k = "fear_greed" THEN IndexInputs ELSE {})

EmptyDict == <<>>

\* The aggregator has not been called.
AggregatorIdle ==
    /\ bullish_count = 0
    /\ bearish_count = 0
    /\ verdict = NotRun

\* main is not running.
NoFile == [written |-> FALSE, data |-> EmptyDict]

MainIdle ==
    /\ pc = "idle"
    /\ upstream = EmptyDict
    /\ fetched = <<>>
    /\ sent_telegram = NotRun
    /\ sent_email = NotRun
    /\ latest_json = NoFile

InitClassify ==
    /\ kind \in Kinds
    /\ value \in ClassifierInputs(kind)
    /\ signal = NotRun
    /\ data = EmptyDict
    /\ report = Pending
    /\ email = Pending
    /\ now = 0
    /\ AggregatorIdle
    /\ MainIdle

Apply(k, result) ==
    /\ kind = k
    /\ signal = NotRun
    /\ signal' = result
    /\ UNCHANGED <<kind, value, data, report, email, now, aggVars, mainVars>>

CallMa == Apply("ma", get_ma_signal(value))
CallHigh == Apply("high", get_52w_high_signal(value))
CallLow == Apply("low", get_52w_low_signal(value))
CallFearGreed == Apply("fear_greed", get_fear_greed_signal(value))
CallKimchi == Apply("kimchi", get_kimchi_signal(value))
CallFunding == Apply("funding", get_funding_signal(value))
CallDominance == Apply("dominance", get_dominance_signal(value))
CallM2 == Apply("m2", get_m2_signal(value))
CallStablecoin == Apply("stablecoin", get_stablecoin_signal(value))

NextClassify ==
    \/ CallMa
    \/ CallHigh
    \/ CallLow
    \/ CallFearGreed
    \/ CallKimchi
    \/ CallFunding
    \/ CallDominance
    \/ CallM2
    \/ CallStablecoin

SpecClassify == InitClassify /\ [][NextClassify]_vars

-----------------------------------------------------------------------------
(* Claims about the classifiers, checked under SpecClassify.               *)

Called == signal # NotRun

\* C1: each of the nine classifiers returns UNKNOWN exactly when its input
\* is None, returns one of GREEN, YELLOW, RED for every numeric input, and
\* never raises.
C1_UnknownIffAbsent ==
    Called =>
        /\ signal \in {GREEN, YELLOW, RED, UNKNOWN}
        /\ (signal = UNKNOWN) <=> (value = None)
        /\ IsNumber(value) => signal \in {GREEN, YELLOW, RED}

C1_Witness == kind = "ma" /\ value = None /\ signal = UNKNOWN

\* The tier of a table "GREEN when >= g, YELLOW in [y, g), RED when < y".
LowerInclusiveTable(x, g, y) ==
    /\ (x >= g) => signal = GREEN
    /\ (y <= x /\ x < g) => signal = YELLOW
    /\ (x < y) => signal = RED

C3_FearGreedTable ==
    (Called /\ kind = "fear_greed" /\ value \in IndexInputs) =>
        /\ (value.n <= 25 * Unit) => signal = GREEN
        /\ (26 * Unit <= value.n /\ value.n <= 74 * Unit) => signal = YELLOW
        /\ (value.n >= 75 * Unit) => signal = RED

C3_Witness == kind = "fear_greed" /\ value = PyInt(25) /\ signal = GREEN

\* The tier of a nested-range table: closed inner range [gl, gh] GREEN,
\* closed outer range [yl, yh] minus the inner range YELLOW, the rest RED.
NestedTable(x, gl, gh, yl, yh) ==
    LET inner == gl <= x /\ x <= gh
        outer == yl <= x /\ x <= yh
    IN  /\ inner => signal = GREEN
        /\ (outer /\ ~inner) => signal = YELLOW
        /\ ~outer => signal = RED

\* C4: premium, funding rate and dominance are classified GREEN inside the
\* closed inner range, YELLOW inside the closed outer range but outside the
\* inner one, RED outside the outer range; inner endpoints are GREEN and
\* outer endpoints are YELLOW.
C4_NestedTables ==
    (Called /\ IsNumber(value)) =>
        /\ kind = "kimchi" =>
               NestedTable(value.n, -1 * Unit, 2 * Unit, -3 * Unit, 5 * Unit)
        /\ kind = "funding" =>
               NestedTable(value.n, -(Unit \div 100), (3 * Unit) \div 100,
                           -((3 * Unit) \div 100), (8 * Unit) \div 100)
        /\ kind = "dominance" =>
               NestedTable(value.n, 50 * Unit, 60 * Unit,
                           45 * Unit, 65 * Unit)

C4_Witness ==
    kind = "funding" /\ value = PyFloat((3 * Unit) \div 100) /\ signal = GREEN

\* The tier of a table "GREEN when > g, YELLOW in [y, g], RED when < y".
StrictGreenTable(x, g, y) ==
    /\ (x > g) => signal = GREEN
    /\ (y <= x /\ x <= g) => signal = YELLOW
    /\ (x < y) => signal = RED

\* C5: the money-supply and stablecoin classifiers are GREEN strictly above
\* 5 / 200, YELLOW on the closed ranges [0, 5] / [150, 200], RED below.
C5_MacroTables ==
    (Called /\ IsNumber(value)) =>
        /\ kind = "m2" => StrictGreenTable(value.n, 5 * Unit, 0)
        /\ kind = "stablecoin" =>
               StrictGreenTable(value.n, 200 * Unit, 150 * Unit)

C5_Witness ==
    kind = "stablecoin" /\ value = PyFloat(200 * Unit) /\ signal = YELLOW

-----------------------------------------------------------------------------
(* REPORT GENERATION: dict access and f-string formatting.                 *)

\* d.get(k, default)
Get(d, k, default) == IF k \in DOMAIN d THEN d[k] ELSE default

\* Truth value of a Python value: None, 0, 0.0 and "" are false.
Truthy(v) ==
    CASE v.t = "NoneType" -> FALSE
      [] v.t = "str" -> v.s # ""
      [] OTHER -> v.n # 0

RECURSIVE Pow10(_)
Pow10(e) == IF e = 0 THEN 1 ELSE 10 * Pow10(e - 1)

Abs(x) == IF x < 0 THEN -x ELSE x

\* |x| as a count of 10^-decimals, rounded half to even as the 'f'
\* presentation type rounds a value that lies exactly between two results.
Rounded(x, decimals) ==
    LET step == Unit \div Pow10(decimals)
        q == Abs(x) \div step
        r == Abs(x) % step
    IN  IF 2 * r > step \/ (2 * r = step /\ q % 2 = 1) THEN q + 1 ELSE q

\* i written with exactly width digits (leading zeros).
RECURSIVE ZeroPad(_, _)
ZeroPad(i, width) ==
    IF width = 0 THEN ""
    ELSE ZeroPad(i \div 10, width - 1) \o ToString(i % 10)

\* i written with the ',' thousands separator.
RECURSIVE Grouped(_)
Grouped(i) ==
    IF i < 1000 THEN ToString(i)
    ELSE Grouped(i \div 1000) \o "," \o ZeroPad(i % 1000, 3)

\* format(number, "[+][,].<decimals>f")
FixedText(x, decimals, plus, comma) ==
    LET q == Rounded(x, decimals)
        whole == q \div Pow10(decimals)
        frac == q % Pow10(decimals)
        sign == IF x < 0 THEN "-" ELSE IF plus THEN "+" ELSE ""
        digits == IF comma THEN Grouped(whole) ELSE ToString(whole)
    IN  sign \o digits
        \o (IF decimals = 0 THEN "" ELSE "." \o ZeroPad(frac, decimals))

\* The fraction digits of repr(float): trailing zeros dropped, one kept.
RECURSIVE Trimmed(_, _)
Trimmed(frac, width) ==
    IF width > 1 /\ frac % 10 = 0 THEN Trimmed(frac \div 10, width - 1)
    ELSE ZeroPad(frac, width)

\* str(v), what an f-string field without a format spec renders.
PyStr(v) ==
    CASE v.t = "NoneType" -> "None"
      [] v.t = "str" -> v.s
      [] v.t = "int" ->
            (IF v.n < 0 THEN "-" ELSE "") \o ToString(Abs(v.n) \div Unit)
      [] OTHER ->
            (IF v.n < 0 THEN "-" ELSE "") \o ToString(Abs(v.n) \div Unit)
            \o "." \o Trimmed(Abs(v.n) % Unit, 4)

\* An evaluated f-string field: the text, or the exception it raised.
Ok(text) == [exc |-> "none", text |-> text]
Raised(e) == [exc |-> e, text |-> ""]

\* f"{v:<spec>f}": NoneType.__format__ rejects a format spec (TypeError),
\* str rejects the 'f' presentation type (ValueError).
FormatF(v, decimals, plus, comma) ==
    CASE v.t = "NoneType" -> Raised("TypeError")
      [] v.t = "str" -> Raised("ValueError")
      [] OTHER -> Ok(FixedText(v.n, decimals, plus, comma))

\* f"{v}"
FormatPlain(v) == Ok(PyStr(v))

\* v >= 0, as the email report evaluates it to pick a CSS class.
ChangeClass(v) ==
    IF IsNumber(v)
    THEN Ok(IF v.n >= 0 THEN "change-pos" ELSE "change-neg")
    ELSE Raised("TypeError")

\* The exception of the first field, in evaluation order, that raised.
FirstExc(fields) ==
    IF \E i \in DOMAIN fields : fields[i].exc # "none"
    THEN fields[CHOOSE i \in DOMAIN fields :
                    /\ fields[i].exc # "none"
                    /\ \A j \in 1..(i - 1) : fields[j].exc = "none"].exc
    ELSE "none"

\* (utcnow() + 1 hour).strftime("%Y-%m-%d %H:%M"): minutes since the epoch.
TimeStr(clock) == clock + 60

\* One rendered line: the marker, the text substituted for the indicator's
\* value, and the whole text that follows the marker.
Line(sig, val, text) == [sig |-> sig, val |-> val, text |-> text]

\* The text of an evaluated field ("" when it raised).
Text(f) == f.text

-----------------------------------------------------------------------------
(* generate_report: the Telegram (markdown) report.                        *)

\* Lines 464-467 (BTC) and 469-472 (ETH): header, 120D MA, 52w high, 52w low.
report_asset_block(name, d, ma_sig, high_sig, low_sig, ma_price, ma_str) ==
    LET price == FormatF(Get(d, "price_usd", PyInt(0)), 0, FALSE, TRUE)
        chg == FormatF(Get(d, "change_24h", PyInt(0)), 1, TRUE, FALSE)
        high == FormatF(Get(d, "from_52w_high", PyInt(0)), 1, FALSE, FALSE)
        low == FormatF(Get(d, "from_52w_low", PyInt(0)), 1, FALSE, FALSE)
    IN  [fields |-> <<price, chg, high, low>>,
         lines |->
            (name \o "_head") :>
                Line("", "$" \o Text(price),
                     "$" \o Text(price) \o " (" \o Text(chg) \o "%)")
         @@ (name \o "_ma") :>
                Line(ma_sig, Text(ma_str),
                     "120D MA: " \o Text(ma_price) \o " (" \o Text(ma_str) \o ")")
         @@ (name \o "_high") :>
                Line(high_sig, Text(high), "vs 52w High: " \o Text(high) \o "%")
         @@ (name \o "_low") :>
                Line(low_sig, Text(low), "vs 52w Low: +" \o Text(low) \o "%")]

\* Lines 477-480: Fear & Greed, Kimchi Premium, Funding Rate, BTC Dominance.
report_market_block(fg, kp, fr, dom, fg_sig, kp_sig, fr_sig, dom_sig) ==
    LET index == FormatPlain(Get(fg, "value", Str("N/A")))
        class == FormatPlain(Get(fg, "classification", Str("")))
        premium == FormatPlain(Get(kp, "premium_percent", Str("N/A")))
        rate == FormatF(Get(fr, "rate_percent", PyInt(0)), 4, FALSE, FALSE)
        share == FormatPlain(Get(dom, "btc_dominance", Str("N/A")))
    IN  [fields |-> <<index, class, premium, rate, share>>,
         lines |->
            "fg" :> Line(fg_sig, Text(index),
                         "Fear & Greed: " \o Text(index)
                         \o " (" \o Text(class) \o ")")
         @@ "kp" :> Line(kp_sig, Text(premium),
                         "Kimchi Premium: " \o Text(premium) \o "%")
         @@ "fr" :> Line(fr_sig, Text(rate), "Funding Rate: " \o Text(rate) \o "%")
         @@ "dom" :> Line(dom_sig, Text(share),
                          "BTC Dominance: " \o Text(share) \o "%")]

\* Lines 485-487: US M2, USD/KRW (always the white marker), Stablecoin.
report_macro_block(m2, kp, stable, m2_sig, stable_sig) ==
    LET tril == FormatF(Get(m2, "value_trillions", PyInt(0)), 2, FALSE, FALSE)
        yoy == FormatF(Get(m2, "yoy_change", PyInt(0)), 1, TRUE, FALSE)
        krw == FormatF(Get(kp, "usd_krw", PyInt(0)), 0, FALSE, TRUE)
        total == FormatF(Get(stable, "total_billions", PyInt(0)),
                         0, FALSE, FALSE)
    IN  [fields |-> <<tril, yoy, krw, total>>,
         lines |->
            "m2" :> Line(m2_sig, Text(yoy),
                         "US M2: $" \o Text(tril) \o "T (YoY " \o Text(yoy) \o "%)")
         @@ "usd_krw" :> Line(UNKNOWN, Text(krw), "USD/KRW: " \o Text(krw))
         @@ "stable" :> Line(stable_sig, Text(total),
                             "Stablecoin: $" \o Text(total) \o "B")]

\* The value a generator returns, or the exception that leaves it.
\* style holds the CSS classes the HTML report picks from the data.
Rendered(markup, clock, fields, lines, style) ==
    IF FirstExc(fields) # "none"
    THEN [exc |-> FirstExc(fields), markup |-> markup,
          time_str |-> TimeStr(clock), lines |-> EmptyDict,
          style |-> EmptyDict]
    ELSE [exc |-> "none", markup |-> markup,
          time_str |-> TimeStr(clock), lines |-> lines, style |-> style]

generate_report(d, clock) ==
    LET btc == Get(d, "btc", EmptyDict)
        eth == Get(d, "eth", EmptyDict)
        fg == Get(d, "fear_greed", EmptyDict)
        m2 == Get(d, "m2_supply", EmptyDict)
        fr == Get(d, "funding_rate", EmptyDict)
        kp == Get(d, "kimchi_premium", EmptyDict)
        dom == Get(d, "dominance", EmptyDict)
        stable == Get(d, "stablecoin", EmptyDict)
        btc_ma_dist == Get(btc, "ma_120_distance", None)
        btc_ma_sig == get_ma_signal(btc_ma_dist)
        btc_52h_sig == get_52w_high_signal(Get(btc, "from_52w_high", None))
        btc_52l_sig == get_52w_low_signal(Get(btc, "from_52w_low", None))
        eth_ma_dist == Get(eth, "ma_120_distance", None)
        eth_ma_sig == get_ma_signal(eth_ma_dist)
        eth_52h_sig == get_52w_high_signal(Get(eth, "from_52w_high", None))
        eth_52l_sig == get_52w_low_signal(Get(eth, "from_52w_low", None))
        fg_sig == get_fear_greed_signal(Get(fg, "value", None))
        kp_sig == get_kimchi_signal(Get(kp, "premium_percent", None))
        fr_sig == get_funding_signal(Get(fr, "rate_percent", None))
        dom_sig == get_dominance_signal(Get(dom, "btc_dominance", None))
        m2_sig == get_m2_signal(Get(m2, "yoy_change", None))
        stable_sig == get_stablecoin_signal(Get(stable, "total_billions", None))
        ma_str(dist) ==
            IF Truthy(dist)
            THEN LET f == FormatF(dist, 1, TRUE, FALSE)
                 IN  IF f.exc = "none" THEN Ok(f.text \o "%") ELSE f
            ELSE Ok("N/A")
        ma_price(a) ==
            IF Truthy(Get(a, "ma_120", None))
            THEN LET f == FormatF(Get(a, "ma_120", PyInt(0)), 0, FALSE, TRUE)
                 IN  IF f.exc = "none" THEN Ok("$" \o f.text) ELSE f
            ELSE Ok("N/A")
        btc_ma_str == ma_str(btc_ma_dist)
        btc_ma_price == ma_price(btc)
        eth_ma_str == ma_str(eth_ma_dist)
        eth_ma_price == ma_price(eth)
        b == report_asset_block("btc", btc, btc_ma_sig, btc_52h_sig,
                                btc_52l_sig, btc_ma_price, btc_ma_str)
        e == report_asset_block("eth", eth, eth_ma_sig, eth_52h_sig,
                                eth_52l_sig, eth_ma_price, eth_ma_str)
        m == report_market_block(fg, kp, fr, dom,
                                 fg_sig, kp_sig, fr_sig, dom_sig)
        c == report_macro_block(m2, kp, stable, m2_sig, stable_sig)
    IN  Rendered("markdown", clock,
                 <<btc_ma_str, btc_ma_price, eth_ma_str, eth_ma_price>>
                 \o b.fields \o e.fields \o m.fields \o c.fields,
                 b.lines @@ e.lines @@ m.lines @@ c.lines,
                 EmptyDict)

-----------------------------------------------------------------------------
(* generate_email_report: the HTML report.  The <tr><td> markup around a   *)
(* line is fixed text; a line holds the marker cell and the text cell.     *)

\* Lines 576-582 (BTC) and 586-592 (ETH).
email_asset_block(name, d, ma_sig, high_sig, low_sig, ma_price, ma_str) ==
    LET price == FormatF(Get(d, "price_usd", PyInt(0)), 0, FALSE, TRUE)
        class == ChangeClass(Get(d, "change_24h", PyInt(0)))
        chg == FormatF(Get(d, "change_24h", PyInt(0)), 1, TRUE, FALSE)
        high == FormatF(Get(d, "from_52w_high", PyInt(0)), 1, FALSE, FALSE)
        low == FormatF(Get(d, "from_52w_low", PyInt(0)), 1, FALSE, FALSE)
    IN  [fields |-> <<price, class, chg, high, low>>,
         style |-> name :> Text(class),
         lines |->
            (name \o "_head") :>
                Line("", "$" \o Text(price),
                     "$" \o Text(price) \o " (" \o Text(chg) \o "%)")
         @@ (name \o "_ma") :>
                Line(ma_sig, Text(ma_str),
                     "120D MA: " \o Text(ma_price) \o " (" \o Text(ma_str) \o ")")
         @@ (name \o "_high") :>
                Line(high_sig, Text(high), "vs 52w High: " \o Text(high) \o "%")
         @@ (name \o "_low") :>
                Line(low_sig, Text(low), "vs 52w Low: +" \o Text(low) \o "%")]

email_market_block_2dp(fg, kp, fr, dom, fg_sig, kp_sig, fr_sig, dom_sig) ==
    LET index == FormatPlain(Get(fg, "value", Str("N/A")))
        class == FormatPlain(Get(fg, "classification", Str("")))
        premium == FormatPlain(Get(kp, "premium_percent", Str("N/A")))
        rate == FormatF(Get(fr, "rate_percent", PyInt(0)), 2, FALSE, FALSE)
        share == FormatPlain(Get(dom, "btc_dominance", Str("N/A")))
    IN  [fields |-> <<index, class, premium, rate, share>>,
         lines |->
            "fg" :> Line(fg_sig, Text(index),
                         "Fear & Greed: " \o Text(index)
                         \o " (" \o Text(class) \o ")")
         @@ "kp" :> Line(kp_sig, Text(premium),
                         "Kimchi Premium: " \o Text(premium) \o "%")
         @@ "fr" :> Line(fr_sig, Text(rate), "Funding Rate: " \o Text(rate) \o "%")
         @@ "dom" :> Line(dom_sig, Text(share),
                          "BTC Dominance: " \o Text(share) \o "%")]

\* Lines 598-601.
email_market_block(fg, kp, fr, dom, fg_sig, kp_sig, fr_sig, dom_sig) ==
    LET index == FormatPlain(Get(fg, "value", Str("N/A")))
        class == FormatPlain(Get(fg, "classification", Str("")))
        premium == FormatPlain(Get(kp, "premium_percent", Str("N/A")))
        rate == FormatF(Get(fr, "rate_percent", PyInt(0)), 4, FALSE, FALSE)
        share == FormatPlain(Get(dom, "btc_dominance", Str("N/A")))
    IN  [fields |-> <<index, class, premium, rate, share>>,
         lines |->
            "fg" :> Line(fg_sig, Text(index),
                         "Fear & Greed: " \o Text(index)
                         \o " (" \o Text(class) \o ")")
         @@ "kp" :> Line(kp_sig, Text(premium),
                         "Kimchi Premium: " \o Text(premium) \o "%")
         @@ "fr" :> Line(fr_sig, Text(rate), "Funding Rate: " \o Text(rate) \o "%")
         @@ "dom" :> Line(dom_sig, Text(share),
                          "BTC Dominance: " \o Text(share) \o "%")]

\* Lines 608-610.
email_macro_block(m2, kp, stable, m2_sig, stable_sig) ==
    LET tril == FormatF(Get(m2, "value_trillions", PyInt(0)), 2, FALSE, FALSE)
        yoy == FormatF(Get(m2, "yoy_change", PyInt(0)), 1, TRUE, FALSE)
        krw == FormatF(Get(kp, "usd_krw", PyInt(0)), 0, FALSE, TRUE)
        total == FormatF(Get(stable, "total_billions", PyInt(0)),
                         0, FALSE, FALSE)
    IN  [fields |-> <<tril, yoy, krw, total>>,
         lines |->
            "m2" :> Line(m2_sig, Text(yoy),
                         "US M2: $" \o Text(tril) \o "T (YoY " \o Text(yoy) \o "%)")
         @@ "usd_krw" :> Line(UNKNOWN, Text(krw), "USD/KRW: " \o Text(krw))
         @@ "stable" :> Line(stable_sig, Text(total),
                             "Stablecoin: $" \o Text(total) \o "B")]

generate_email_report(d, clock) ==
    LET btc == Get(d, "btc", EmptyDict)
        eth == Get(d, "eth", EmptyDict)
        fg == Get(d, "fear_greed", EmptyDict)
        m2 == Get(d, "m2_supply", EmptyDict)
        fr == Get(d, "funding_rate", EmptyDict)
        kp == Get(d, "kimchi_premium", EmptyDict)
        dom == Get(d, "dominance", EmptyDict)
        stable == Get(d, "stablecoin", EmptyDict)
        btc_ma_dist == Get(btc, "ma_120_distance", None)
        btc_ma_sig == get_ma_signal(btc_ma_dist)
        btc_52h_sig == get_52w_high_signal(Get(btc, "from_52w_high", None))
        btc_52l_sig == get_52w_low_signal(Get(btc, "from_52w_low", None))
        eth_ma_dist == Get(eth, "ma_120_distance", None)
        eth_ma_sig == get_ma_signal(eth_ma_dist)
        eth_52h_sig == get_52w_high_signal(Get(eth, "from_52w_high", None))
        eth_52l_sig == get_52w_low_signal(Get(eth, "from_52w_low", None))
        fg_sig == get_fear_greed_signal(Get(fg, "value", None))
        kp_sig == get_kimchi_signal(Get(kp, "premium_percent", None))
        fr_sig == get_funding_signal(Get(fr, "rate_percent", None))
        dom_sig == get_dominance_signal(Get(dom, "btc_dominance", None))
        m2_sig == get_m2_signal(Get(m2, "yoy_change", None))
        stable_sig == get_stablecoin_signal(Get(stable, "total_billions", None))
        ma_str(dist) ==
            IF Truthy(dist)
            THEN LET f == FormatF(dist, 1, TRUE, FALSE)
                 IN  IF f.exc = "none" THEN Ok(f.text \o "%") ELSE f
            ELSE Ok("N/A")
        ma_price(a) ==
            IF Truthy(Get(a, "ma_120", None))
            THEN LET f == FormatF(Get(a, "ma_120", PyInt(0)), 0, FALSE, TRUE)
                 IN  IF f.exc = "none" THEN Ok("$" \o f.text) ELSE f
            ELSE Ok("N/A")
        btc_ma_str == ma_str(btc_ma_dist)
        btc_ma_price == ma_price(btc)
        eth_ma_str == ma_str(eth_ma_dist)
        eth_ma_price == ma_price(eth)
        b == email_asset_block("btc", btc, btc_ma_sig, btc_52h_sig,
                               btc_52l_sig, btc_ma_price, btc_ma_str)
        e == email_asset_block("eth", eth, eth_ma_sig, eth_52h_sig,
                               eth_52l_sig, eth_ma_price, eth_ma_str)
        m == email_market_block(fg, kp, fr, dom,
                                fg_sig, kp_sig, fr_sig, dom_sig)
        c == email_macro_block(m2, kp, stable, m2_sig, stable_sig)
    IN  Rendered("html", clock,
                 <<btc_ma_str, btc_ma_price, eth_ma_str, eth_ma_price>>
                 \o b.fields \o e.fields \o m.fields \o c.fields,
                 b.lines @@ e.lines @@ m.lines @@ c.lines,
                 b.style @@ e.style)

-----------------------------------------------------------------------------
(* Report specification: both generators applied to every snapshot of a    *)
(* bounded family, at any reading of the clock.                            *)

AssetKeys == {"price_usd", "change_24h", "ma_120", "ma_120_distance",
              "from_52w_high", "from_52w_low"}

\* The keys the generators read, by the group of data that holds them.
Layout ==
    [btc |-> AssetKeys,
     eth |-> AssetKeys,
     fear_greed |-> {"value", "classification"},
     m2_supply |-> {"value_trillions", "yoy_change"},
     funding_rate |-> {"rate_percent"},
     kimchi_premium |-> {"premium_percent", "usd_krw"},
     dominance |-> {"btc_dominance"},
     stablecoin |-> {"total_billions"}]

Groups == DOMAIN Layout

Slots == {<<g, k>> : g \in Groups, k \in AssetKeys \cup
              {"value", "classification", "value_trillions", "yoy_change",
               "rate_percent", "premium_percent", "usd_krw",
               "btc_dominance", "total_billions"}}

Pairs == {p \in Slots : p[2] \in Layout[p[1]]}

\* The declared indicators: the line that shows each, the key that holds
\* its value, and the tier a measured 0 classifies to.
Ind(line, group, key, zero) ==
    [line |-> line, group |-> group, key |-> key, zero |-> zero]

Indicators ==
    {Ind("btc_ma", "btc", "ma_120_distance", YELLOW),
     Ind("btc_high", "btc", "from_52w_high", GREEN),
     Ind("btc_low", "btc", "from_52w_low", RED),
     Ind("eth_ma", "eth", "ma_120_distance", YELLOW),
     Ind("eth_high", "eth", "from_52w_high", GREEN),
     Ind("eth_low", "eth", "from_52w_low", RED),
     Ind("fg", "fear_greed", "value", GREEN),
     Ind("kp", "kimchi_premium", "premium_percent", GREEN),
     Ind("fr", "funding_rate", "rate_percent", GREEN),
     Ind("dom", "dominance", "btc_dominance", RED),
     Ind("m2", "m2_supply", "yoy_change", YELLOW),
     Ind("stable", "stablecoin", "total_billions", RED)}

IsIndicator(g, k) == \E i \in Indicators : i.group = g /\ i.key = k

\* Marks a key the dict does not hold, while a snapshot is being built.
Missing == [t |-> "missing", n |-> 0, s |-> ""]

\* A fully measured snapshot.
TypicalAsset(price) ==
    [price_usd |-> PyFloat(price * Unit),
     change_24h |-> PyFloat((12 * Unit) \div 10),
     ma_120 |-> PyFloat((price - 5000) * Unit),
     ma_120_distance |-> PyFloat(-22 * Unit),
     from_52w_high |-> PyFloat(-10 * Unit),
     from_52w_low |-> PyFloat(120 * Unit)]

Typical ==
    [btc |-> TypicalAsset(65000),
     eth |-> TypicalAsset(8500),
     fear_greed |-> [value |-> PyInt(18),
                     classification |-> Str("Extreme Fear")],
     m2_supply |-> [value_trillions |-> PyFloat((217 * Unit) \div 10),
                    yoy_change |-> PyFloat((65 * Unit) \div 10)],
     funding_rate |-> [rate_percent |-> PyFloat((11 * Unit) \div 100)],
     kimchi_premium |-> [premium_percent |-> PyFloat((62 * Unit) \div 10),
                         usd_krw |-> PyFloat(1300 * Unit)],
     dominance |-> [btc_dominance |-> PyFloat(58 * Unit)],
     stablecoin |-> [total_billions |-> PyFloat(210 * Unit)]]

\* Typical with every indicator replaced by v.
Unmeasured(v) ==
    [g \in Groups |->
        [k \in Layout[g] |-> IF IsIndicator(g, k) THEN v ELSE Typical[g][k]]]

Uniform(v) == [g \in Groups |-> [k \in Layout[g] |-> v]]

\* The snapshots the family is built around: fully measured; every
\* indicator None; every fetcher returned {} (lines 226, 295, 301); and the
\* empty data dict.  whole: main stored a dict for every group.
Bases ==
    {[keys |-> Typical, whole |-> TRUE],
     [keys |-> Unmeasured(None), whole |-> TRUE],
     [keys |-> Uniform(Missing), whole |-> TRUE],
     [keys |-> Uniform(Missing), whole |-> FALSE]}

\* What one key may be changed to.
Candidates(p) ==
    {Missing, None} \cup
    (CASE p[2] = "classification" -> {Str("Greed")}
       [] p[2] = "value" -> {PyInt(0), PyInt(80)}
       [] OTHER -> {PyFloat(0), PyFloat(-55000), PyFloat(12345678)})

Changes == {<<p, v>> : p \in Pairs, v \in {Missing, None, Str("Greed"),
                PyInt(0), PyInt(80), PyFloat(0), PyFloat(-55000),
                PyFloat(12345678)}}

Overrides ==
    UNION {[1..m -> {c \in Changes : c[2] \in Candidates(c[1])}]
              : m \in 0..MaxOverride}

RECURSIVE Override(_, _)
Override(keys, ov) ==
    IF ov = <<>> THEN keys
    ELSE LET p == ov[1][1]
         IN  Override([keys EXCEPT ![p[1]][p[2]] = ov[1][2]], Tail(ov))

\* The dict of the keys that are not Missing.
Dict(f) == [k \in {x \in DOMAIN f : f[x] # Missing} |-> f[k]]

Build(keys, whole) ==
    [g \in {x \in Groups : whole \/ Dict(keys[x]) # EmptyDict}
        |-> Dict(keys[g])]

Snapshots ==
    {Build(Override(b.keys, ov), b.whole) : b \in Bases, ov \in Overrides}

Init ==
    /\ kind = "none"
    /\ value = None
    /\ signal = NotRun
    /\ data \in Snapshots
    /\ report = Pending
    /\ email = Pending
    /\ now = 0
    /\ AggregatorIdle
    /\ MainIdle

\* The system clock advances between and during calls.
Tick ==
    /\ now < MaxClock
    /\ now' = now + 1
    /\ UNCHANGED <<kind, value, signal, data, report, email, aggVars, mainVars>>

GenerateReport ==
    /\ report = Pending
    /\ report' = generate_report(data, now)
    /\ UNCHANGED <<kind, value, signal, data, email, now, aggVars, mainVars>>

GenerateEmailReport ==
    /\ email = Pending
    /\ email' = generate_email_report(data, now)
    /\ UNCHANGED <<kind, value, signal, data, report, now, aggVars, mainVars>>

Next ==
    \/ Tick
    \/ GenerateReport
    \/ GenerateEmailReport

Spec == Init /\ [][Next]_vars

-----------------------------------------------------------------------------
(* Claims about the report generators, checked under Spec.                 *)

\* What the snapshot holds for an indicator; Missing when the key (or its
\* group) is not in the snapshot at all.
Held(i) == Get(Get(data, i.group, EmptyDict), i.key, Missing)

KeyMissing(i) == Held(i) = Missing
Absent(i) == Held(i) \in {None, Missing}
MeasuredZero(i) == IsNumber(Held(i)) /\ Held(i).n = 0

\* The keys the generators read that are not indicators (prices, 24h
\* change, the MA price, M2 level, FX rate, the index's label).
Ancillary == {p \in Pairs : ~IsIndicator(p[1], p[2])}

HeldAt(p) == Get(Get(data, p[1], EmptyDict), p[2], Missing)

\* No key other than an indicator holds None.
AncillaryUsable == \A p \in Ancillary : HeldAt(p) # None

\* The snapshot invariant: every declared key is present and holds a number
\* or None.  The ancillary keys are all present and measured.
SnapshotInvariant ==
    /\ \A i \in Indicators : ~KeyMissing(i)
    /\ \A p \in Ancillary : HeldAt(p) \notin {None, Missing}

Reports == {report, email}
Generated(r) == r # Pending
Shown(r, i) == r.lines[i.line]

NAMarkers == {"N/A", "unknown"}

\* C6: for a snapshot whose every indicator value is absent, both
\* generators return a report (no error) in which every declared indicator
\* has its line and shows an "N/A"/"unknown" marker in place of the value.
C6_AllAbsentShowsNA ==
    \A r \in Reports :
        (Generated(r) /\ AncillaryUsable /\ \A i \in Indicators : Absent(i)) =>
            /\ r.exc = "none"
            /\ \A i \in Indicators :
                   /\ i.line \in DOMAIN r.lines
                   /\ Shown(r, i).val \in NAMarkers

\* C7: for every snapshot that satisfies the snapshot invariant, neither
\* generator raises, and a key that holds None is shown as UNKNOWN / "N/A".
C7_NoRaiseOnValidSnapshot ==
    \A r \in Reports :
        (Generated(r) /\ SnapshotInvariant) =>
            /\ r.exc = "none"
            /\ \A i \in Indicators :
                   Held(i) = None =>
                       /\ Shown(r, i).sig = UNKNOWN
                       /\ Shown(r, i).val \in NAMarkers

\* C8: a report never confuses unmeasured with zero: an absent value shows
\* N/A next to UNKNOWN, a measured 0 shows a number next to the tier that
\* classifies 0, so the two are rendered differently.
C8_ZeroIsNotAbsent ==
    \A r \in Reports :
        (Generated(r) /\ r.exc = "none") =>
            \A i \in Indicators :
                /\ Absent(i) =>
                       /\ Shown(r, i).val \in NAMarkers
                       /\ Shown(r, i).sig = UNKNOWN
                /\ MeasuredZero(i) =>
                       /\ Shown(r, i).val \notin NAMarkers
                       /\ Shown(r, i).sig = i.zero

\* C9: a snapshot that lacks a declared key entirely makes report
\* generation fail with an error that identifies the missing key (a
\* KeyError); it is never rendered with the value defaulted to zero.
C9_MissingKeyFailsFast ==
    \A r \in Reports :
        (Generated(r) /\ \E i \in Indicators : KeyMissing(i)) =>
            r.exc = "KeyError"

\* C10: for every snapshot the markdown report and the HTML report encode
\* the same data: both raise the same exception or neither does, and every
\* line carries the same tier and the same rendered strings in both.
C10_SameContent ==
    (Generated(report) /\ Generated(email)) =>
        /\ report.exc = email.exc
        /\ DOMAIN report.lines = DOMAIN email.lines
        /\ \A l \in DOMAIN report.lines :
               /\ report.lines[l].sig = email.lines[l].sig
               /\ report.lines[l].val = email.lines[l].val
               /\ report.lines[l].text = email.lines[l].text

C10_Witness ==
    /\ report.markup = "markdown" /\ report.exc = "none"
    /\ email.markup = "html" /\ email.exc = "none"
    /\ report.lines["fr"] = Line(RED, "0.1100", "Funding Rate: 0.1100%")
    /\ email.lines["fr"] = Line(RED, "0.1100", "Funding Rate: 0.1100%")
    /\ report.lines["btc_ma"].val = "N/A"
    /\ email.lines["btc_ma"].val = "N/A"

\* C11: rendering is a function of its arguments only: the timestamp is an
\* explicit input, so the report a generator returned equals what the same
\* generator returns for the same snapshot at any other reading of the
\* system clock.
C11_ClockIndependent ==
    /\ Generated(report) =>
           \A c \in 0..MaxClock : generate_report(data, c) = report
    /\ Generated(email) =>
           \A c \in 0..MaxClock : generate_email_report(data, c) = email

-----------------------------------------------------------------------------
(* Composite Aggregator.  crypto_dashboard.py (v5) only displays the       *)
(* per-indicator tiers; the verdict rule belongs to the earlier revisions  *)
(* of the script and is modelled here from its stated rule.                *)

MaxCount == 7

BULLISH == "BULLISH"
BEARISH == "BEARISH"
NEUTRAL == "NEUTRAL"

aggregate_no_deadband(bullish, bearish) ==
    IF bullish > bearish THEN BULLISH
    ELSE IF bearish > bullish THEN BEARISH
    ELSE NEUTRAL

\* The verdict for the two counts.
aggregate(bullish, bearish) ==
    IF bullish > bearish + 1 THEN BULLISH
    ELSE IF bearish > bullish + 1 THEN BEARISH
    ELSE NEUTRAL

InitAggregate ==
    /\ kind = "none"
    /\ value = None
    /\ signal = NotRun
    /\ data = EmptyDict
    /\ report = Pending
    /\ email = Pending
    /\ now = 0
    /\ bullish_count \in 0..MaxCount
    /\ bearish_count \in 0..MaxCount
    /\ verdict = NotRun
    /\ MainIdle

Aggregate ==
    /\ verdict = NotRun
    /\ verdict' = aggregate(bullish_count, bearish_count)
    /\ UNCHANGED <<kind, value, signal, data, report, email, now,
                   bullish_count, bearish_count, mainVars>>

NextAggregate == Aggregate

SpecAggregate == InitAggregate /\ [][NextAggregate]_vars

\* C13: the aggregator is total over all pairs of non-negative counts: the
\* verdict is BULLISH exactly when bullish_count > bearish_count + 1,
\* BEARISH exactly when bearish_count > bullish_count + 1 and NEUTRAL
\* otherwise (3 vs 1 BULLISH, 2 vs 1 NEUTRAL, 0 vs 0 NEUTRAL), and the two
\* directional verdicts are never both selected.
C13_VerdictRule ==
    verdict # NotRun =>
        /\ verdict \in {BULLISH, BEARISH, NEUTRAL}
        /\ (verdict = BULLISH) <=> (bullish_count > bearish_count + 1)
        /\ (verdict = BEARISH) <=> (bearish_count > bullish_count + 1)
        /\ (verdict = NEUTRAL) <=>
               /\ bullish_count <= bearish_count + 1
               /\ bearish_count <= bullish_count + 1
        /\ (bullish_count = 3 /\ bearish_count = 1) => verdict = BULLISH
        /\ (bullish_count = 2 /\ bearish_count = 1) => verdict = NEUTRAL
        /\ (bullish_count = 0 /\ bearish_count = 0) => verdict = NEUTRAL
        /\ ~(bullish_count > bearish_count + 1
             /\ bearish_count > bullish_count + 1)

C13_Witness == bullish_count = 2 /\ bearish_count = 1 /\ verdict = NEUTRAL

-----------------------------------------------------------------------------
(* DATA COLLECTION.  What an upstream service answers is a record: raises  *)
(* says the request or response.json() raised; a JSON field holds a        *)
(* number, None (JSON null) or Missing (the field is not in the body).     *)
(* Numbers of the responses are whole or chosen so that the divisions of   *)
(* the model are exact.                                                    *)

\* d.get(k, default) on a JSON field.
Field(v, default) == IF v = Missing THEN default ELSE v

\* a * b for fixed-point a, b, where a is a whole number.
Times(a, b) == (a \div Unit) * b

\* (a - b) / b * 100 for fixed-point a, b, where b is a whole number.
PercentOver(a, b) == ((a - b) \div (b \div Unit)) * 100

\* round(x, decimals)
Round(x, decimals) ==
    LET r == Rounded(x, decimals) * (Unit \div Pow10(decimals))
    IN  IF x < 0 THEN -r ELSE r

\* float(v) and int(v): a number, or the exception the conversion raises.
ToFloat(v) ==
    CASE v.t = "NoneType" -> [exc |-> "TypeError", v |-> None]
      [] v.t = "str" -> [exc |-> "ValueError", v |-> None]
      [] OTHER -> [exc |-> "none", v |-> PyFloat(v.n)]

ToInt(v) ==
    CASE v.t = "NoneType" -> [exc |-> "TypeError", v |-> None]
      [] v.t = "str" -> [exc |-> "ValueError", v |-> None]
      [] OTHER ->
            [exc |-> "none",
             v |-> PyInt(IF v.n < 0 THEN -((-v.n) \div Unit)
                         ELSE v.n \div Unit)]

\* Lines 181-226 and, with the same body, 229-274.  prices is the price
\* history by what the code reads of it: its length, max, min and the mean
\* of its last 120 entries.  price_krw and change_7d, which no report
\* reads, are left out of the result.
coin_detailed(r) ==
    LET current_price == Field(r.usd, PyInt(0))
        result == [price_usd |-> current_price,
                   change_24h |-> Field(r.change_24h, PyInt(0))]
        high == r.prices.high
        low == r.prices.low
        ma_120 == r.prices.mean120
        year == [high_52w |-> PyFloat(high),
                 low_52w |-> PyFloat(low),
                 from_52w_high |->
                     PyFloat(PercentOver(current_price.n, high)),
                 from_52w_low |->
                     PyFloat(PercentOver(current_price.n, low))]
        ma == [ma_120 |-> PyFloat(ma_120),
               ma_120_distance |->
                   PyFloat(PercentOver(current_price.n, ma_120))]
    IN  IF r.raises THEN EmptyDict
        ELSE IF r.prices.count = 0 THEN result
        ELSE IF ~IsNumber(current_price) \/ high = 0 \/ low = 0
             THEN EmptyDict
        ELSE IF r.prices.count < 120 THEN year @@ result
        ELSE IF ma_120 = 0 THEN EmptyDict
        ELSE ma @@ year @@ result

get_btc_detailed(r) == coin_detailed(r)
get_eth_detailed(r) == coin_detailed(r)

\* Lines 277-295.  count is len(data).
get_fear_greed_index(r) ==
    LET index == ToInt(Field(r.value, PyInt(0)))
        yesterday == ToInt(Field(r.yesterday, PyInt(0)))
    IN  IF r.raises \/ r.count = 0 THEN EmptyDict
        ELSE IF index.exc # "none" \/ yesterday.exc # "none" THEN EmptyDict
        ELSE [value |-> index.v,
              classification |-> Field(r.classification, Str("")),
              yesterday |-> yesterday.v]

\* Lines 298-325.  api_key: FRED_API_KEY is set; count: len(observations).
get_us_m2_supply(r) ==
    LET current == ToFloat(Field(r.value, PyInt(0)))
        year_ago == IF r.count > 12
                    THEN ToFloat(Field(r.year_ago, current.v))
                    ELSE current
    IN  IF ~r.api_key \/ r.raises \/ r.count < 2 THEN EmptyDict
        ELSE IF current.exc # "none" \/ year_ago.exc # "none" THEN EmptyDict
        ELSE [value_trillions |-> PyFloat(current.v.n \div 1000),
              yoy_change |->
                  IF year_ago.v.n # 0
                  THEN PyFloat(PercentOver(current.v.n, year_ago.v.n))
                  ELSE PyInt(0)]

\* Lines 328-341.
get_funding_rate(r) ==
    LET rate == ToFloat(Field(r.fundingRate, PyInt(0)))
    IN  IF r.raises \/ r.count = 0 \/ rate.exc # "none" THEN EmptyDict
        ELSE [rate_percent |-> PyFloat(rate.v.n * 100)]

\* Lines 344-373.
get_kimchi_premium(r) ==
    LET upbit_price == Field(r.trade_price, PyInt(0))
        binance_price == ToFloat(Field(r.price, PyInt(0)))
        usd_krw == Field(r.krw, PyInt(1300))
        binance_krw == Times(binance_price.v.n, usd_krw.n)
        premium == IF binance_krw # 0
                   THEN PercentOver(upbit_price.n, binance_krw)
                   ELSE 0
    IN  IF r.raises \/ binance_price.exc # "none" THEN EmptyDict
        ELSE IF ~IsNumber(usd_krw) \/ ~IsNumber(upbit_price) THEN EmptyDict
        ELSE [premium_percent |-> IF binance_krw # 0
                                  THEN PyFloat(Round(premium, 2))
                                  ELSE PyInt(0),
              usd_krw |-> usd_krw]

\* Lines 376-388.
get_btc_dominance(r) ==
    LET share == Field(r.btc, PyInt(0))
    IN  IF r.raises \/ ~IsNumber(share) THEN EmptyDict
        ELSE [btc_dominance |-> [share EXCEPT !.n = Round(share.n, 1)]]

\* Lines 391-409.  The market caps are counted in 1e9 dollars.
get_stablecoin_supply(r) ==
    LET usdt == Field(r.tether, PyInt(0))
        usdc == Field(r.usd_coin, PyInt(0))
    IN  IF r.raises \/ ~IsNumber(usdt) \/ ~IsNumber(usdc) THEN EmptyDict
        ELSE [total_billions |-> PyFloat(usdt.n + usdc.n)]

-----------------------------------------------------------------------------
(* The answers of the upstream services, by name.                          *)

History(count, high, low, mean120) ==
    [count |-> count, high |-> high * Unit, low |-> low * Unit,
     mean120 |-> mean120 * Unit]

CoinBody(raises, usd, change_24h, prices) ==
    [raises |-> raises, usd |-> usd, change_24h |-> change_24h,
     prices |-> prices]

CoinResponses ==
    [full |-> CoinBody(FALSE, PyFloat(120 * Unit),
                       PyFloat((12 * Unit) \div 10),
                       History(365, 150, 60, 100)),
     exception |-> CoinBody(TRUE, Missing, Missing, History(0, 0, 0, 0)),
     no_market_data |-> CoinBody(FALSE, Missing, Missing,
                                 History(365, 150, 60, 100)),
     no_history |-> CoinBody(FALSE, PyFloat(120 * Unit),
                             PyFloat((12 * Unit) \div 10),
                             History(0, 0, 0, 0)),
     short_history |-> CoinBody(FALSE, PyFloat(120 * Unit),
                                PyFloat((12 * Unit) \div 10),
                                History(100, 150, 60, 0)),
     zero_prices |-> CoinBody(FALSE, PyFloat(120 * Unit),
                              PyFloat((12 * Unit) \div 10),
                              History(365, 0, 0, 0)),
     null_change |-> CoinBody(FALSE, PyFloat(120 * Unit), None,
                              History(365, 150, 60, 100))]

IndexBody(raises, count, index, yesterday) ==
    [raises |-> raises, count |-> count, value |-> index,
     classification |-> IF index = Missing THEN Missing
                        ELSE Str("Extreme Fear"),
     yesterday |-> yesterday]

IndexResponses ==
    [full |-> IndexBody(FALSE, 7, PyInt(18), PyInt(20)),
     exception |-> IndexBody(TRUE, 0, Missing, Missing),
     no_data |-> IndexBody(FALSE, 0, Missing, Missing),
     no_value |-> IndexBody(FALSE, 7, Missing, Missing),
     null_value |-> IndexBody(FALSE, 7, None, None)]

M2Body(api_key, raises, count, current, year_ago) ==
    [api_key |-> api_key, raises |-> raises, count |-> count,
     value |-> current, year_ago |-> year_ago]

M2Responses ==
    [full |-> M2Body(TRUE, FALSE, 13, PyFloat(217 * Unit),
                     PyFloat(200 * Unit)),
     no_api_key |-> M2Body(FALSE, FALSE, 0, Missing, Missing),
     exception |-> M2Body(TRUE, TRUE, 0, Missing, Missing),
     one_observation |-> M2Body(TRUE, FALSE, 1, PyFloat(217 * Unit),
                                Missing),
     no_year_ago |-> M2Body(TRUE, FALSE, 12, PyFloat(217 * Unit), Missing),
     no_value |-> M2Body(TRUE, FALSE, 13, Missing, Missing),
     not_a_number |-> M2Body(TRUE, FALSE, 13, Str("."), Str(".")),
     zero_year_ago |-> M2Body(TRUE, FALSE, 13, PyFloat(217 * Unit),
                              PyFloat(0))]

FundingBody(raises, count, rate) ==
    [raises |-> raises, count |-> count, fundingRate |-> rate]

FundingResponses ==
    [full |-> FundingBody(FALSE, 1, PyFloat(1)),
     exception |-> FundingBody(TRUE, 0, Missing),
     no_data |-> FundingBody(FALSE, 0, Missing),
     no_value |-> FundingBody(FALSE, 1, Missing)]

PremiumBody(raises, trade_price, price, krw) ==
    [raises |-> raises, trade_price |-> trade_price, price |-> price,
     krw |-> krw]

PremiumResponses ==
    [full |-> PremiumBody(FALSE, PyFloat(1326 * Unit), PyFloat(100 * Unit),
                          PyFloat(13 * Unit)),
     exception |-> PremiumBody(TRUE, Missing, Missing, Missing),
     no_trade_price |-> PremiumBody(FALSE, Missing, PyFloat(100 * Unit),
                                    PyFloat(13 * Unit)),
     no_price |-> PremiumBody(FALSE, PyFloat(1326 * Unit), Missing,
                              PyFloat(13 * Unit)),
     no_rate |-> PremiumBody(FALSE, PyFloat(1326 * Unit),
                             PyFloat(1 * Unit), Missing)]

ShareBody(raises, btc) == [raises |-> raises, btc |-> btc]

ShareResponses ==
    [full |-> ShareBody(FALSE, PyFloat(580400)),
     exception |-> ShareBody(TRUE, Missing),
     no_value |-> ShareBody(FALSE, Missing),
     null_value |-> ShareBody(FALSE, None)]

FloatBody(raises, tether, usd_coin) ==
    [raises |-> raises, tether |-> tether, usd_coin |-> usd_coin]

FloatResponses ==
    [full |-> FloatBody(FALSE, PyFloat(140 * Unit), PyFloat(70 * Unit)),
     exception |-> FloatBody(TRUE, Missing, Missing),
     no_value |-> FloatBody(FALSE, Missing, Missing),
     null_value |-> FloatBody(FALSE, None, PyFloat(70 * Unit))]

\* The answers each service may give, by the group main stores them under.
Responses ==
    [btc |-> CoinResponses,
     eth |-> CoinResponses,
     fear_greed |-> IndexResponses,
     m2_supply |-> M2Responses,
     funding_rate |-> FundingResponses,
     kimchi_premium |-> PremiumResponses,
     dominance |-> ShareResponses,
     stablecoin |-> FloatResponses]

\* What the fetcher of group g returns when its service answers `name`.
Fetcher(g, name) ==
    LET r == Responses[g][name]
    IN  CASE g = "btc" -> get_btc_detailed(r)
          [] g = "eth" -> get_eth_detailed(r)
          [] g = "fear_greed" -> get_fear_greed_index(r)
          [] g = "m2_supply" -> get_us_m2_supply(r)
          [] g = "funding_rate" -> get_funding_rate(r)
          [] g = "kimchi_premium" -> get_kimchi_premium(r)
          [] g = "dominance" -> get_btc_dominance(r)
          [] g = "stablecoin" -> get_stablecoin_supply(r)

-----------------------------------------------------------------------------
(* SEND FUNCTIONS and MAIN.                                                *)

MaxFaults == 1

\* Every service answers in full; every request raises; every body lacks
\* the fields the fetcher reads.
AllFull == [g \in Groups |-> "full"]
AllDown == [g \in Groups |-> "exception"]
AllBare ==
    [g \in Groups |->
        CASE g \in {"btc", "eth"} -> "no_market_data"
          [] g = "kimchi_premium" -> "no_price"
          [] OTHER -> "no_value"]

ResponseNames == UNION {DOMAIN Responses[g] : g \in Groups}

\* Up to MaxFaults services answer otherwise than the rest.
Faults ==
    UNION {{f \in [S -> ResponseNames] :
                \A g \in S : f[g] \in DOMAIN Responses[g]}
              : S \in {T \in SUBSET Groups : Cardinality(T) <= MaxFaults}}

Scenarios ==
    {[g \in Groups |-> IF g \in DOMAIN f THEN f[g] ELSE b[g]]
        : b \in {AllFull, AllDown, AllBare}, f \in Faults}

\* A Python bool, as text.
PyBool(b) == IF b THEN "True" ELSE "False"

\* Lines 638-660.  configured: the bot token and the chat id are both set;
\* transport: what requests.post does.
TelegramTransports == {"200", "400", "exception"}

send_telegram(configured, transport) ==
    IF ~configured THEN FALSE
    ELSE IF transport = "exception" THEN FALSE
    ELSE transport = "200"

\* Lines 663-688.  configured: the address and the password are both set;
\* transport: what the SMTP session does.
EmailTransports == {"delivered", "exception"}

send_email(configured, transport) ==
    IF ~configured THEN FALSE
    ELSE transport = "delivered"

\* Line 699 and the process environment main starts in.
InitMain ==
    /\ kind = "none"
    /\ value = None
    /\ signal = NotRun
    /\ data = EmptyDict
    /\ report = Pending
    /\ email = Pending
    /\ now = 0
    /\ AggregatorIdle
    /\ pc = "btc"
    /\ upstream \in Scenarios
    /\ fetched = <<>>
    /\ sent_telegram = NotRun
    /\ sent_email = NotRun
    /\ latest_json = NoFile

\* data[g] = get_...() and the step to the next statement.
Fetch(g, next) ==
    /\ pc = g
    /\ data' = (g :> Fetcher(g, upstream[g])) @@ data
    /\ fetched' = Append(fetched, g)
    /\ pc' = next
    /\ UNCHANGED <<kind, value, signal, report, email, now, aggVars,
                   upstream, sent_telegram, sent_email, latest_json>>

FetchBtc == Fetch("btc", "eth")
FetchEth == Fetch("eth", "fear_greed")
FetchFearGreed == Fetch("fear_greed", "m2_supply")
FetchM2 == Fetch("m2_supply", "funding_rate")
FetchFundingRate == Fetch("funding_rate", "kimchi_premium")
FetchKimchiPremium == Fetch("kimchi_premium", "dominance")
FetchDominance == Fetch("dominance", "stablecoin")
FetchStablecoin == Fetch("stablecoin", "generate_report")

\* Line 735.  An exception of the generator leaves main.
MainGenerateReport ==
    /\ pc = "generate_report"
    /\ report' = generate_report(data, now)
    /\ pc' = IF report'.exc = "none" THEN "generate_email_report"
             ELSE "crashed"
    /\ UNCHANGED <<kind, value, signal, data, email, now, aggVars, upstream,
                   fetched, sent_telegram, sent_email, latest_json>>

\* Line 736.
MainGenerateEmailReport ==
    /\ pc = "generate_email_report"
    /\ email' = generate_email_report(data, now)
    /\ pc' = IF email'.exc = "none" THEN "send_telegram" ELSE "crashed"
    /\ UNCHANGED <<kind, value, signal, data, report, now, aggVars,
                   upstream, fetched, sent_telegram, sent_email, latest_json>>

\* Line 741.
MainSendTelegram ==
    /\ pc = "send_telegram"
    /\ \E configured \in BOOLEAN, transport \in TelegramTransports :
           sent_telegram' = PyBool(send_telegram(configured, transport))
    /\ pc' = "send_email"
    /\ UNCHANGED <<kind, value, signal, data, report, email, now, aggVars,
                   upstream, fetched, sent_email, latest_json>>

\* Line 742.
MainSendEmail ==
    /\ pc = "send_email"
    /\ \E configured \in BOOLEAN, transport \in EmailTransports :
           sent_email' = PyBool(send_email(configured, transport))
    /\ pc' = "save"
    /\ UNCHANGED <<kind, value, signal, data, report, email, now, aggVars,
                   upstream, fetched, sent_telegram, latest_json>>

\* Lines 745-749.
Save ==
    /\ pc = "save"
    /\ latest_json' = [written |-> TRUE, data |-> data]
    /\ pc' = "done"
    /\ UNCHANGED <<kind, value, signal, data, report, email, now, aggVars,
                   upstream, fetched, sent_telegram, sent_email>>

NextMain ==
    \/ Tick
    \/ FetchBtc
    \/ FetchEth
    \/ FetchFearGreed
    \/ FetchM2
    \/ FetchFundingRate
    \/ FetchKimchiPremium
    \/ FetchDominance
    \/ FetchStablecoin
    \/ MainGenerateReport
    \/ MainGenerateEmailReport
    \/ MainSendTelegram
    \/ MainSendEmail
    \/ Save

SpecMain == InitMain /\ [][NextMain]_vars

-----------------------------------------------------------------------------
(* Claims about data collection and main, checked under SpecMain.          *)

\* The indicator keys of group g whose metric the answer r could not give:
\* the request raised, a field the metric is computed from is not in the
\* body or is not a number, or the divisor of the metric is zero.
NotObtained(g, r) ==
    CASE g \in {"btc", "eth"} ->
            IF r.raises \/ ~IsNumber(r.usd) \/ r.prices.count = 0
            THEN {"ma_120_distance", "from_52w_high", "from_52w_low"}
            ELSE {k \in {"from_52w_high"} : r.prices.high = 0}
                 \cup {k \in {"from_52w_low"} : r.prices.low = 0}
                 \cup {k \in {"ma_120_distance"} :
                          r.prices.count < 120 \/ r.prices.mean120 = 0}
      [] g = "fear_greed" ->
            {k \in {"value"} :
                r.raises \/ r.count = 0 \/ ~IsNumber(r.value)}
      [] g = "m2_supply" ->
            {k \in {"yoy_change"} :
                \/ ~r.api_key \/ r.raises \/ r.count <= 12
                \/ ~IsNumber(r.value) \/ ~IsNumber(r.year_ago)
                \/ r.year_ago.n = 0}
      [] g = "funding_rate" ->
            {k \in {"rate_percent"} :
                r.raises \/ r.count = 0 \/ ~IsNumber(r.fundingRate)}
      [] g = "kimchi_premium" ->
            {k \in {"premium_percent"} :
                \/ r.raises \/ ~IsNumber(r.trade_price)
                \/ ~IsNumber(r.price) \/ ~IsNumber(r.krw)
                \/ r.price.n = 0 \/ r.krw.n = 0}
      [] g = "dominance" ->
            {k \in {"btc_dominance"} : r.raises \/ ~IsNumber(r.btc)}
      [] g = "stablecoin" ->
            {k \in {"total_billions"} :
                r.raises \/ ~IsNumber(r.tether) \/ ~IsNumber(r.usd_coin)}

Failed(i) ==
    i.key \in NotObtained(i.group, Responses[i.group][upstream[i.group]])

\* C12: in the data main passes to generate_report, every indicator whose
\* metric its fetcher failed to obtain (by an exception, a missing field or
\* a zero divisor) is absent: its key is missing or holds None, never 0 or
\* another number.
C12_FailureIsAbsence ==
    (pc # "idle" /\ Generated(report)) =>
        \A i \in Indicators : Failed(i) => Absent(i)

FetchOrder ==
    <<"btc", "eth", "fear_greed", "m2_supply", "funding_rate",
      "kimchi_premium", "dominance", "stablecoin">>

\* C14: no run of main ends anywhere but at Done, whatever the fetchers
\* return and the transports do; the fetches happen in the fixed order,
\* then both reports are generated, then Telegram is attempted, then the
\* email, then data/latest.json is written; a failed send stops nothing.
C14_MainReachesDone ==
    pc # "idle" =>
        /\ pc # "crashed"
        /\ fetched = SubSeq(FetchOrder, 1, Len(fetched))
        /\ Generated(report) => fetched = FetchOrder
        /\ Generated(email) => Generated(report)
        /\ sent_telegram # NotRun => Generated(email)
        /\ sent_email # NotRun => sent_telegram # NotRun
        /\ latest_json.written => sent_email # NotRun
        /\ latest_json.written <=> pc = "done"
        /\ pc \in {"save", "done"} =>
               sent_telegram # NotRun /\ sent_email # NotRun

====
